---- MODULE Spec2Model ----
(***************************************************************************)
(* Model of queries-core/src/pipeline/nlu_engine.rs: the SnipsNLUEngine    *)
(* (parse, extract_slot, tag, tag_seen_entities).                          *)
(*                                                                         *)
(* Representation.  A string is the sequence of its one-character words,   *)
(* separated by single spaces: "a b" is <<"a", "b">>; a trailing run of    *)
(* 2^15 words "c" is written as the one item LongRun.  Two strings are     *)
(* equal iff their representations are, a HashMap<String, _> is a function *)
(* whose DOMAIN is its key set, Option<T> is a sequence of length 0 or 1,  *)
(* Range<usize> is a pair <<start, end>> and Result<T> is a record         *)
(* [ok, err, val].                                                         *)
(***************************************************************************)
EXTENDS Integers, Sequences, FiniteSets, TLC

VARIABLES parsers, entities, intents_data_sizes, slot_name_mapping,
          overflow_checks, pc, op, args, result

vars == <<parsers, entities, intents_data_sizes, slot_name_mapping,
          overflow_checks, pc, op, args, result>>

engine == <<parsers, entities, intents_data_sizes, slot_name_mapping,
            overflow_checks>>

(***************************************************************************)
(* Option, Result and small sequence helpers                               *)
(***************************************************************************)
None == <<>>

Some(x) == <<x>>

IsSome(o) == Len(o) = 1

Unwrap(o) == o[1]

Ok(v) == [ok |-> TRUE, err |-> <<>>, val |-> v]

Err(e) == [ok |-> FALSE, err |-> e, val |-> <<>>]

Range(s) == {s[i] : i \in DOMAIN s}

SeqsUpTo(S, n) == UNION {[1..k -> S] : k \in 0..n}

(***************************************************************************)
(* Bounds of the model                                                     *)
(***************************************************************************)
\* longest slot list a strategy answers with
MaxSlots == 2

\* longest input of extract_slot, in tokens
MaxTokens == 3

\* longest text of tag, in tokens
MaxTagTokens == 2

\* longest slot list a strategy answers tag's baseline with
MaxBaseline == 2

\* longest text of tag_seen_entities, in tokens, beside the long text
MaxSeenTokens == 3

\* most matches tag_builtin_entities answers with
MaxBuiltin == 1

(***************************************************************************)
(* Values of the data model (pipeline::{Slot, SlotValue, ...})             *)
(***************************************************************************)
Custom(s) == [kind |-> "Custom", v |-> s]

Builtin(s) == [kind |-> "Builtin", v |-> s]

Slot(raw, value, range, entity, slot_name) ==
    [raw_value |-> raw, value |-> value, range |-> range,
     entity |-> entity, slot_name |-> slot_name]

with_slot_value(slot, value) == [slot EXCEPT !.value = value]

TaggedEntity(value, range, entity, slot_name) ==
    [value |-> value, range |-> range, entity |-> entity, slot_name |-> slot_name]

IntentClassifierResult(name, probability) ==
    [intent_name |-> name, probability |-> probability]

IntentParserResult(input, intent, slots) ==
    [input |-> input, intent |-> intent, slots |-> slots]

(***************************************************************************)
(* The engine's configuration                                              *)
(***************************************************************************)
\* the two IntentParser implementations SnipsNLUEngine::new may install
ParserKinds == {"rule_based", "probabilistic"}

\* `parsers` after new(): each strategy is optional, rule based comes first
ParserLists ==
    {<<>>, <<"rule_based">>, <<"probabilistic">>, <<"rule_based", "probabilistic">>}

\* pipeline::configuration::Entity
Entity(utterances, automatically_extensible) ==
    [utterances |-> utterances, automatically_extensible |-> automatically_extensible]

\* an utterance map over `keys`: the reference value of key k in entity e is
\* the string "<e> k", never the raw string itself
Utterances(e, keys) == [k \in keys |-> <<e>> \o k]

BuiltinEntityNames == {"snips/number"}

\* the Entity Catalogs the engine is constructed with
Catalogs ==
    { [e \in (IF with3 THEN {"E1", "E2", "E3"} ELSE {"E1", "E2"}) |->
          CASE e = "E1" -> Entity(Utterances("E1", k1), x1)
            [] e = "E2" -> Entity(Utterances("E2", k2), x2)
            [] e = "E3" -> Entity(Utterances("E3", {<<"a">>}), FALSE)] :
        k1 \in {{<<"a">>, <<"a", "b">>}, {<<"a">>}},
        k2 \in {{<<"a">>}, {<<"b">>, <<"a", "b">>}},
        x1 \in BOOLEAN, x2 \in BOOLEAN, with3 \in BOOLEAN }

\* the Catalogs tag is checked with: two closed entities that share the key
\* "a", or the key "a b"
TagCatalogs ==
    {c \in Catalogs : /\ DOMAIN c = {"E1", "E2"}
                      /\ ~c["E1"].automatically_extensible
                      /\ ~c["E2"].automatically_extensible
                      /\ <<"a", "b">> \in DOMAIN c["E1"].utterances}

\* width of the integer type the sort key of tag_seen_entities is cast to
I16Bits == 16

\* the item that stands for a run of 2^15 words "c" at the end of a string
LongRun == "c c c ... (32768 times)"

RunLen == 2 ^ (I16Bits - 1)

RunWords == [i \in 1..RunLen |-> "c"]

\* the words of a string
Words(string) ==
    IF string # <<>> /\ string[Len(string)] = LongRun
    THEN SubSeq(string, 1, Len(string) - 1) \o RunWords
    ELSE string

\* the string of a sequence of words, joined by single spaces
Join(words) ==
    IF /\ Len(words) >= RunLen
       /\ \A i \in (Len(words) - RunLen + 1)..Len(words) : words[i] = "c"
    THEN SubSeq(words, 1, Len(words) - RunLen) \o <<LongRun>>
    ELSE words

\* a text of 2^15 + 1 tokens, the least token count whose cast to i16 is
\* negative and can be negated: "b c c c ..."
LongText == <<"b", LongRun>>

\* a Catalog in which one entity knows "b" and another the whole long text
LongCatalog ==
    [e \in {"E1", "E2"} |->
        IF e = "E1" THEN Entity(Utterances("E1", {<<"b">>}), FALSE)
        ELSE Entity(Utterances("E2", {LongText}), FALSE)]

\* slot name -> entity name, per intent; I3 has a data size and no mapping
SlotNameMapping ==
    [i \in {"I1", "I2"} |->
        IF i = "I1"
        THEN [s \in {"s1", "s2", "s3", "n"} |->
                 CASE s = "s1" -> "E1" [] s = "s2" -> "E2"
                   [] s = "s3" -> "E3" [] s = "n" -> "snips/number"]
        ELSE [s \in {"t1", "t2", "n"} |->
                 CASE s = "t1" -> "E1" [] s = "t2" -> "E1"
                   [] s = "n" -> "snips/number"]]

IntentsDataSizes ==
    [i \in {"I1", "I2", "I3"} |->
        CASE i = "I1" -> 2 [] i = "I2" -> 5 [] i = "I3" -> 1]

\* intent and slot names a caller may pass ("I0", "s0": configured nowhere)
IntentNames == {"I0", "I1", "I2", "I3"}

SlotNames == {"s0", "s1", "s2", "s3", "t1", "n"}

\* the texts of at most n tokens over the words "a" and "b"
TextsUpTo(n) == SeqsUpTo({"a", "b"}, n)

(***************************************************************************)
(* The intent parsing strategies (pipeline::IntentParser), external to the *)
(* engine: an answer is drawn for every call the engine makes.             *)
(***************************************************************************)
\* the probability a strategy attaches to its classification
Probability(parser) == IF parser = "rule_based" THEN 100 ELSE 70

\* IntentParser::get_intent(input, set_intents): an error, no classification,
\* or a classification among the intents the filter allows
IntentAnswers(parser, set_intents) ==
    {Err(<<"strategy error">>), Ok(None)} \cup
    { Ok(Some(IntentClassifierResult(i, Probability(parser)))) :
        i \in IF IsSome(set_intents) THEN Unwrap(set_intents) \cap {"I1", "I2"}
              ELSE {"I1", "I2"} }

\* the slots a strategy may propose
SlotPool ==
    { Slot(<<"a">>, Custom(<<"a">>), Some(<<0, 1>>), "E1", "s1"),
      Slot(<<"b">>, Custom(<<"b">>), Some(<<2, 3>>), "E1", "s1"),
      Slot(<<"a">>, Custom(<<"x">>), None, "E2", "s2"),
      Slot(<<"a", "b">>, Custom(<<"a", "b">>), Some(<<0, 3>>), "E2", "s2"),
      Slot(<<"b">>, Builtin(<<"2">>), Some(<<2, 3>>), "snips/number", "n") }

\* the slots a strategy may propose as the baseline of tag: overlapping
\* ranges and a slot without a range
BaselinePool ==
    { Slot(<<"a">>, Custom(<<"a">>), Some(<<0, 1>>), "E1", "s1"),
      Slot(<<"a", "b">>, Custom(<<"a", "b">>), Some(<<0, 3>>), "E2", "s2"),
      Slot(<<"b">>, Builtin(<<"2">>), None, "snips/number", "n") }

\* IntentParser::get_slots(input, intent_name): an error or a slot list
SlotAnswers(pool, n) ==
    {Err(<<"strategy error">>)} \cup {Ok(s) : s \in SeqsUpTo(pool, n)}

Call(parser, method, answer) ==
    [parser |-> parser, method |-> method, answer |-> answer]

(***************************************************************************)
(* SnipsNLUEngine::parse                                                   *)
(***************************************************************************)
\* valid_slot without the test of automatically_extensible: a slot whose
\* raw value the entity does not know is kept
valid_slot_keeps_unknown(slot) ==
    IF slot.entity \in DOMAIN entities
    THEN LET entity == entities[slot.entity]
         IN IF slot.raw_value \in DOMAIN entity.utterances
            THEN Some(with_slot_value(slot,
                          Custom(entity.utterances[slot.raw_value])))
            ELSE Some(slot)
    ELSE Some(slot)

\* the filter_map closure of parse: the slot as kept, or None when dropped
valid_slot(slot) ==
    IF slot.entity \in DOMAIN entities
    THEN LET entity == entities[slot.entity]
         IN IF slot.raw_value \in DOMAIN entity.utterances
            THEN Some(with_slot_value(slot,
                          Custom(entity.utterances[slot.raw_value])))
            ELSE IF entity.automatically_extensible THEN Some(slot) ELSE None
    ELSE Some(slot)

RECURSIVE filter_map_slots(_)
filter_map_slots(slots) ==
    IF slots = <<>> THEN <<>>
    ELSE valid_slot(Head(slots)) \o filter_map_slots(Tail(slots))

\* parse_from asking the first parser of the list, not the one that
\* classified the input, for the slots
RECURSIVE parse_from_slots_of_first(_, _, _, _, _)
parse_from_slots_of_first(i, input, set_intents, strategies, calls) ==
    IF i > Len(parsers)
    THEN [ok |-> TRUE, err |-> <<>>,
          val |-> IntentParserResult(input, None, None), calls |-> calls]
    ELSE LET parser == parsers[i]
             classification_result == strategies.get_intent[parser]
             calls1 == Append(calls, Call(parser, "get_intent", classification_result))
         IN IF ~classification_result.ok
            THEN [ok |-> FALSE, err |-> classification_result.err,
                  val |-> <<>>, calls |-> calls1]
            ELSE IF IsSome(classification_result.val)
            THEN LET slots == strategies.get_slots[parsers[1]]
                     calls2 == Append(calls1, Call(parsers[1], "get_slots", slots))
                 IN IF ~slots.ok
                    THEN [ok |-> FALSE, err |-> slots.err,
                          val |-> <<>>, calls |-> calls2]
                    ELSE [ok |-> TRUE, err |-> <<>>,
                          val |-> IntentParserResult(input,
                                      classification_result.val,
                                      Some(filter_map_slots(slots.val))),
                          calls |-> calls2]
            ELSE parse_from_slots_of_first(i + 1, input, set_intents, strategies, calls1)

\* the loop over self.parsers, from the i-th parser on
RECURSIVE parse_from(_, _, _, _, _)
parse_from(i, input, set_intents, strategies, calls) ==
    IF i > Len(parsers)
    THEN [ok |-> TRUE, err |-> <<>>,
          val |-> IntentParserResult(input, None, None), calls |-> calls]
    ELSE LET parser == parsers[i]
             classification_result == strategies.get_intent[parser]
             calls1 == Append(calls, Call(parser, "get_intent", classification_result))
         IN IF ~classification_result.ok
            THEN [ok |-> FALSE, err |-> classification_result.err,
                  val |-> <<>>, calls |-> calls1]
            ELSE IF IsSome(classification_result.val)
            THEN LET slots == strategies.get_slots[parser]
                     calls2 == Append(calls1, Call(parser, "get_slots", slots))
                 IN IF ~slots.ok
                    THEN [ok |-> FALSE, err |-> slots.err,
                          val |-> <<>>, calls |-> calls2]
                    ELSE [ok |-> TRUE, err |-> <<>>,
                          val |-> IntentParserResult(input,
                                      classification_result.val,
                                      Some(filter_map_slots(slots.val))),
                          calls |-> calls2]
            ELSE parse_from(i + 1, input, set_intents, strategies, calls1)

\* parse answering an empty slot list, not None, when there is no parser
parse_empty_slots(input, intents_filter, strategies) ==
    IF Len(parsers) = 0
    THEN [ok |-> TRUE, err |-> <<>>,
          val |-> IntentParserResult(input, None, Some(<<>>)), calls |-> <<>>]
    ELSE LET set_intents == IF IsSome(intents_filter)
                            THEN Some(Range(Unwrap(intents_filter)))
                            ELSE None
         IN parse_from(1, input, set_intents, strategies, <<>>)

\* parse(&self, input, intents_filter); `calls` lists the strategy calls made
parse(input, intents_filter, strategies) ==
    IF Len(parsers) = 0
    THEN [ok |-> TRUE, err |-> <<>>,
          val |-> IntentParserResult(input, None, None), calls |-> <<>>]
    ELSE LET set_intents == IF IsSome(intents_filter)
                            THEN Some(Range(Unwrap(intents_filter)))
                            ELSE None
         IN parse_from(1, input, set_intents, strategies, <<>>)

\* the parsers parse calls `method` on
Asked(method, input, intents_filter, strategies) ==
    {c.parser : c \in {x \in Range(parse(input, intents_filter, strategies).calls) :
                          x.method = method}}

\* the strategies' answers to the calls of parse(input, intents_filter); a
\* call that is not made has the empty answer
StrategyAnswers(input, intents_filter, slot_answers) ==
    LET set_intents == IF IsSome(intents_filter)
                       THEN Some(Range(Unwrap(intents_filter))) ELSE None
        no_slots == [p \in ParserKinds |-> Ok(<<>>)]
        intents == { gi \in [ParserKinds -> UNION {IntentAnswers(p, set_intents) : p \in ParserKinds}] :
                       /\ \A p \in ParserKinds : gi[p] \in IntentAnswers(p, set_intents)
                       /\ \A p \in ParserKinds \ Asked("get_intent", input, intents_filter,
                                                    [get_intent |-> gi, get_slots |-> no_slots]) :
                              gi[p] = Ok(None) }
    IN UNION { { [get_intent |-> gi,
                  get_slots |-> [p \in ParserKinds |-> IF p \in DOMAIN gs THEN gs[p] ELSE Ok(<<>>)]] :
                 gs \in [Asked("get_slots", input, intents_filter,
                               [get_intent |-> gi, get_slots |-> no_slots]) -> slot_answers] } :
               gi \in intents }

(***************************************************************************)
(* SnipsNLUEngine::extract_slot                                            *)
(***************************************************************************)
\* utils::string::substring_with_char_range: word i of a string sits at the
\* characters 2(i-1) .. 2(i-1)+1
substring_with_char_range(string, range) ==
    Join(SubSeq(Words(string), (range[1] \div 2) + 1, (range[2] + 1) \div 2))

\* extract_custom_entity looking up the first word of the input
extract_custom_entity_first_word(input, entity_name, slot_name, custom_entity) ==
    IF input # <<>> /\ SubSeq(input, 1, 1) \in DOMAIN custom_entity.utterances
    THEN Some(Slot(input, Custom(custom_entity.utterances[SubSeq(input, 1, 1)]), None,
                   entity_name, slot_name))
    ELSE IF custom_entity.automatically_extensible
         THEN Some(Slot(input, Custom(input), None, entity_name, slot_name))
         ELSE None

extract_custom_entity(input, entity_name, slot_name, custom_entity) ==
    IF input \in DOMAIN custom_entity.utterances
    THEN Some(Slot(input, Custom(custom_entity.utterances[input]), None,
                   entity_name, slot_name))
    ELSE IF custom_entity.automatically_extensible
         THEN Some(Slot(input, Custom(input), None, entity_name, slot_name))
         ELSE None

\* `matches` is the answer of RustlingParser::extract_entities to the call
extract_builtin_entity(input, entity_name, slot_name, matches) ==
    IF entity_name \notin BuiltinEntityNames
    THEN Err(<<"Unknown builtin entity", entity_name>>)
    ELSE Ok(IF matches = <<>> THEN None
            ELSE LET rustlin_entity == Head(matches)
                 IN Some(Slot(substring_with_char_range(input, rustlin_entity.range),
                              Builtin(rustlin_entity.entity), None,
                              entity_name, slot_name)))

\* extract_slot looking the slot name up in every mapping before it reports
\* an unknown intent
extract_slot_slot_first(input, intent_name, slot_name, matches) ==
    IF \A i \in DOMAIN slot_name_mapping : slot_name \notin DOMAIN slot_name_mapping[i]
    THEN Err(<<"Unknown slot", slot_name>>)
    ELSE IF intent_name \notin DOMAIN slot_name_mapping
    THEN Err(<<"Unknown intent", intent_name>>)
    ELSE IF slot_name \notin DOMAIN slot_name_mapping[intent_name]
    THEN Err(<<"Unknown slot", slot_name>>)
    ELSE LET entity_name == slot_name_mapping[intent_name][slot_name]
         IN IF entity_name \in DOMAIN entities
            THEN Ok(extract_custom_entity(input, entity_name, slot_name,
                                          entities[entity_name]))
            ELSE extract_builtin_entity(input, entity_name, slot_name, matches)

extract_slot(input, intent_name, slot_name, matches) ==
    IF intent_name \notin DOMAIN slot_name_mapping
    THEN Err(<<"Unknown intent", intent_name>>)
    ELSE IF slot_name \notin DOMAIN slot_name_mapping[intent_name]
    THEN Err(<<"Unknown slot", slot_name>>)
    ELSE LET entity_name == slot_name_mapping[intent_name][slot_name]
         IN IF entity_name \in DOMAIN entities
            THEN Ok(extract_custom_entity(input, entity_name, slot_name,
                                          entities[entity_name]))
            ELSE extract_builtin_entity(input, entity_name, slot_name, matches)

\* character range of the words first..last of a string
CharRange(first, last) == <<2 * (first - 1), 2 * (last - 1) + 1>>

\* the character ranges of the n-grams of a text
NgramRanges(text) ==
    UNION {{CharRange(f, l) : l \in f..Len(text)} : f \in 1..Len(text)}

\* the answers of the builtin entity recognizer for one entity kind: at most
\* one match is looked at
RecognizerAnswers(input) ==
    {<<>>} \cup {<<[range |-> r, entity |-> <<"2">>]>> : r \in NgramRanges(input)}

(***************************************************************************)
(* pipeline::tagging_utils and utils::token, as the specification gives    *)
(* them (sections 4.4 and 6)                                               *)
(***************************************************************************)
\* two half-open character ranges share a character
ranges_overlap(r1, r2) == r1[1] < r2[2] /\ r2[1] < r1[2]

\* two optional ranges overlap; an entity without a range overlaps nothing
overlap(o1, o2) ==
    IsSome(o1) /\ IsSome(o2) /\ ranges_overlap(Unwrap(o1), Unwrap(o2))

\* the greedy merge: an entity of `other_tagged_entities` is accepted iff its
\* range overlaps no range accepted so far
RECURSIVE enrich_entities(_, _)
enrich_entities(tagged_entities, other_tagged_entities) ==
    IF other_tagged_entities = <<>> THEN tagged_entities
    ELSE LET entity == Head(other_tagged_entities)
         IN enrich_entities(
                IF \E i \in DOMAIN tagged_entities :
                       overlap(tagged_entities[i].range, entity.range)
                THEN tagged_entities
                ELSE Append(tagged_entities, entity),
                Tail(other_tagged_entities))

\* the argument names of the intent bound to an entity
SlotNamesOf(mapping, entity_name) ==
    {s \in DOMAIN mapping : mapping[s] = entity_name}

\* the argument names in the order of their declaration
DeclarationOrder == <<"s1", "s2", "s3", "t1", "t2", "n">>

FirstDeclared(names) ==
    DeclarationOrder[CHOOSE i \in DOMAIN DeclarationOrder :
                        /\ DeclarationOrder[i] \in names
                        /\ \A j \in 1..(i - 1) : DeclarationOrder[j] \notin names]

\* disambiguation gives each span without a slot name the argument name of
\* its entity; with no or several candidate names the policy decides
\* ("first": the least name or none, "drop": the span is dropped)
RECURSIVE disambiguate_tagged_entities(_, _, _)
disambiguate_tagged_entities(tagged_entities, mapping, policy) ==
    IF tagged_entities = <<>> THEN <<>>
    ELSE LET entity == Head(tagged_entities)
             names == SlotNamesOf(mapping, entity.entity)
             rest == disambiguate_tagged_entities(Tail(tagged_entities), mapping, policy)
         IN IF IsSome(entity.slot_name) THEN <<entity>> \o rest
            ELSE IF Cardinality(names) = 1
            THEN <<[entity EXCEPT !.slot_name = Some(CHOOSE n \in names : TRUE)]>> \o rest
            ELSE IF policy = "drop" THEN rest
            ELSE IF names = {} THEN <<entity>> \o rest
            ELSE <<[entity EXCEPT !.slot_name = Some(FirstDeclared(names))]>> \o rest

\* tokenize: the tokens of a text with their character ranges
tokenize(text) ==
    [i \in 1..Len(Words(text)) |->
        [value |-> Words(text)[i], char_range |-> CharRange(i, i)]]

(***************************************************************************)
(* SnipsNLUEngine::tag and tag_seen_entities                               *)
(***************************************************************************)
DEFAULT_THRESHOLD == 5

\* `n as i16`: the low 16 bits of n, as a signed number
as_i16(n) ==
    LET low == n % (2 ^ I16Bits)
    IN IF low >= 2 ^ (I16Bits - 1) THEN low - 2 ^ I16Bits ELSE low

\* negation of an i16 overflows on the least value
neg_overflows(x) == x = -(2 ^ (I16Bits - 1))

\* -x in i16 without overflow checks: the least value wraps to itself
wrapping_neg(x) == IF neg_overflows(x) THEN x ELSE -x

\* the key of sort_by_key for an n-gram of `len` tokens
sort_key(len) == wrapping_neg(as_i16(len))

\* an n-gram of the tokens first..last: its string (the token values
\* joined by spaces) and its token indexes
Ngram(token_values, first, last) ==
    [ngram |-> Join(SubSeq(token_values, first, last)),
     first |-> first, last |-> last]

ngram_len(g) == g.last - g.first + 1

\* the entities of the Catalog that belong to the intent, in the order the
\* HashMap iterates them
intent_catalog(intent_entities, order) ==
    SelectSeq(order, LAMBDA e : e \in intent_entities)

\* the n-grams of compute_all_ngrams(tokens, tokens.len()) that are a key of
\* some entity of `names`.  Every other n-gram fails the contains_key test
\* for each entity and leaves the loop's state as it was.
MatchingNgrams(text, names) ==
    LET keys == UNION {DOMAIN entities[e].utterances : e \in names}
        token_values == Words(text)
        lens == {Len(Words(k)) : k \in keys} \cap (1..Len(token_values))
    IN UNION { { Ngram(token_values, f, f + l - 1) :
                   f \in {x \in 1..(Len(token_values) - l + 1) :
                             Ngram(token_values, x, x + l - 1).ngram \in keys} } :
               l \in lens }

\* compute_all_ngrams enumerates by first token, then by length
RECURSIVE InEnumerationOrder(_)
InEnumerationOrder(S) ==
    IF S = {} THEN <<>>
    ELSE LET g == CHOOSE x \in S : \A y \in S :
                     \/ x.first < y.first
                     \/ x.first = y.first /\ x.last <= y.last
         IN <<g>> \o InEnumerationOrder(S \ {g})

\* Vec::sort_by_key is a stable sort: insertion after the last element whose
\* key is not greater
RECURSIVE insert_by_key(_, _)
insert_by_key(sorted, g) ==
    IF sorted = <<>> THEN <<g>>
    ELSE IF sort_key(ngram_len(sorted[Len(sorted)])) <= sort_key(ngram_len(g))
    THEN Append(sorted, g)
    ELSE Append(insert_by_key(SubSeq(sorted, 1, Len(sorted) - 1), g), sorted[Len(sorted)])

RECURSIVE sort_by_key(_)
sort_by_key(ngrams) ==
    IF ngrams = <<>> THEN <<>>
    ELSE insert_by_key(sort_by_key(SubSeq(ngrams, 1, Len(ngrams) - 1)),
                       ngrams[Len(ngrams)])

\* the inner loop without the break: after an ambiguity it goes on
RECURSIVE ngram_entity_no_break(_, _, _, _, _)
ngram_entity_no_break(i, names, text, g, ngram_entity) ==
    IF i > Len(names) THEN ngram_entity
    ELSE IF g.ngram \in DOMAIN entities[names[i]].utterances
    THEN IF IsSome(ngram_entity)
         THEN ngram_entity_no_break(i + 1, names, text, g, None)
         ELSE LET range == <<tokenize(text)[g.first].char_range[1],
                             tokenize(text)[g.last].char_range[2]>>
                  value == substring_with_char_range(text, range)
              IN ngram_entity_no_break(i + 1, names, text, g,
                     Some(TaggedEntity(value, Some(range), names[i], None)))
    ELSE ngram_entity_no_break(i + 1, names, text, g, ngram_entity)

\* the inner loop over the entities for one n-gram, from the i-th entity on:
\* the value of ngram_entity when the loop ends
RECURSIVE ngram_entity_from(_, _, _, _, _)
ngram_entity_from(i, names, text, g, ngram_entity) ==
    IF i > Len(names) THEN ngram_entity
    ELSE IF g.ngram \in DOMAIN entities[names[i]].utterances
    THEN IF IsSome(ngram_entity) THEN None
         ELSE LET range == <<tokenize(text)[g.first].char_range[1],
                             tokenize(text)[g.last].char_range[2]>>
                  value == substring_with_char_range(text, range)
              IN ngram_entity_from(i + 1, names, text, g,
                     Some(TaggedEntity(value, Some(range), names[i], None)))
    ELSE ngram_entity_from(i + 1, names, text, g, ngram_entity)

\* the outer loop over the sorted n-grams: tagged_entities when it ends,
\* and next to it the candidates (the values of ngram_entity) in the order
\* they were merged
RECURSIVE seen_entities_from(_, _, _, _)
seen_entities_from(ngrams, names, text, acc) ==
    IF ngrams = <<>> THEN acc
    ELSE LET ngram_entity == ngram_entity_from(1, names, text, Head(ngrams), None)
         IN seen_entities_from(Tail(ngrams), names, text,
                [tagged_entities |-> enrich_entities(acc.tagged_entities, ngram_entity),
                 candidates |-> acc.candidates \o ngram_entity])

\* with overflow checks the negation in the sort key panics for an n-gram
\* whose length casts to the least i16
sort_panics(text) ==
    /\ overflow_checks
    /\ Len(Words(text)) >= 2 ^ (I16Bits - 1)

tag_seen_entities(text, intent_entities, order) ==
    LET names == intent_catalog(intent_entities, order)
        ngrams == sort_by_key(InEnumerationOrder(MatchingNgrams(text, Range(names))))
        done == seen_entities_from(ngrams, names, text,
                                   [tagged_entities |-> <<>>, candidates |-> <<>>])
    IN IF sort_panics(text)
       THEN [panic |-> TRUE, val |-> <<>>, candidates |-> <<>>]
       ELSE [panic |-> FALSE, val |-> done.tagged_entities,
             candidates |-> done.candidates]

RECURSIVE slots_to_tagged(_)
slots_to_tagged(slots) ==
    IF slots = <<>> THEN <<>>
    ELSE LET s_ == Head(slots)
         IN <<TaggedEntity(s_.raw_value, s_.range, s_.entity, Some(s_.slot_name))>>
            \o slots_to_tagged(Tail(slots))

\* the threshold without the caller's value
threshold_always_default(small_data_regime_threshold) == DEFAULT_THRESHOLD

\* small_data_regime_threshold.unwrap_or(DEFAULT_THRESHOLD)
threshold_or_default(small_data_regime_threshold) ==
    IF IsSome(small_data_regime_threshold)
    THEN Unwrap(small_data_regime_threshold)
    ELSE DEFAULT_THRESHOLD

\* the merge with the parsed entities appended, not merged
merge_appends_parsed(seen, builtin, parsed_entities, mapping, policy) ==
    disambiguate_tagged_entities(
        enrich_entities(seen, builtin) \o parsed_entities, mapping, policy)

\* the last three statements of tag: the two merges and the disambiguation
merge_tagged_entities(seen, builtin, parsed_entities, mapping, policy) ==
    disambiguate_tagged_entities(
        enrich_entities(enrich_entities(seen, builtin), parsed_entities),
        mapping, policy)

\* tag(&self, text, intent, small_data_regime_threshold).  `strategies` and
\* `builtin` are the answers of the strategies and of tag_builtin_entities,
\* `order` the iteration order of self.entities, `policy` the disambiguation
\* policy.  The result carries, next to the value, the strategy calls made
\* and what the low-data branch worked on.
tag(text, intent, small_data_regime_threshold, strategies, builtin, order, policy) ==
    LET failed(e, calls) ==
            [ok |-> FALSE, err |-> e, val |-> <<>>, calls |-> calls,
             baseline |-> <<>>, low_data |-> FALSE, seen |-> <<>>,
             builtin |-> <<>>, policy |-> ""]
    IN IF intent \notin DOMAIN intents_data_sizes
       THEN failed(<<"Unknown intent", intent>>, <<>>)
       ELSE IF intent \notin DOMAIN slot_name_mapping
       THEN failed(<<"Unknown intent", intent>>, <<>>)
       ELSE LET intent_data_size == intents_data_sizes[intent]
                mapping == slot_name_mapping[intent]
                intent_entities == {mapping[s] : s \in DOMAIN mapping}
                threshold == threshold_or_default(small_data_regime_threshold)
                parsed == parse(text, Some(<<intent>>), strategies)
            IN IF ~parsed.ok THEN failed(parsed.err, parsed.calls)
               ELSE LET parsed_entities ==
                            IF IsSome(parsed.val.slots)
                            THEN slots_to_tagged(Unwrap(parsed.val.slots))
                            ELSE <<>>
                    IN IF intent_data_size >= threshold
                       THEN [ok |-> TRUE, err |-> <<>>, val |-> parsed_entities,
                             calls |-> parsed.calls, baseline |-> parsed_entities,
                             low_data |-> FALSE, seen |-> <<>>,
                             builtin |-> <<>>, policy |-> ""]
                       ELSE LET seen == tag_seen_entities(text, intent_entities, order)
                            IN IF seen.panic
                               THEN [failed(<<"panic">>, parsed.calls)
                                        EXCEPT !.baseline = parsed_entities,
                                               !.low_data = TRUE]
                               ELSE [ok |-> TRUE, err |-> <<>>,
                                     val |-> merge_tagged_entities(
                                                 seen.val, builtin, parsed_entities,
                                                 mapping, policy),
                                     calls |-> parsed.calls,
                                     baseline |-> parsed_entities,
                                     low_data |-> TRUE, seen |-> seen.val,
                                     builtin |-> builtin, policy |-> policy]

(***************************************************************************)
(* The state machine: an engine is constructed, then called                *)
(***************************************************************************)
ParseInputs == {<<"a">>, <<"a", "b">>}

Filters == {None, Some(<<>>), Some(<<"I1">>), Some(<<"I2", "I1">>)}

Thresholds == {None, Some(2), Some(6)}

Policies == {"first", "drop"}

\* the permutations of a set, as sequences
Perms(S) ==
    {p \in [1..Cardinality(S) -> S] : \A i, j \in DOMAIN p : i # j => p[i] # p[j]}

\* the answers of tag_builtin_entities: matches of the recognizer, each on
\* one word of the text
BuiltinAnswers(text) ==
    SeqsUpTo({TaggedEntity(<<text[i]>>, Some(CharRange(i, i)), "snips/number", None) :
                 i \in 1..Len(text)},
             MaxBuiltin)

InitWith(lists, catalogs, builds) ==
    /\ parsers \in lists
    /\ entities \in catalogs
    /\ intents_data_sizes = IntentsDataSizes
    /\ slot_name_mapping = SlotNameMapping
    /\ overflow_checks \in builds
    /\ pc = "idle"
    /\ op = "none"
    /\ args = <<>>
    /\ result = <<>>

Init == InitWith(ParserLists, Catalogs, {FALSE})

Parse ==
    /\ pc = "idle"
    /\ \E input \in ParseInputs, intents_filter \in Filters :
         \E strategies \in StrategyAnswers(input, intents_filter,
                                           SlotAnswers(SlotPool, MaxSlots)) :
            /\ op' = "parse"
            /\ args' = [input |-> input, intents_filter |-> intents_filter]
            /\ result' = parse(input, intents_filter, strategies)
    /\ pc' = "done"
    /\ UNCHANGED engine

ExtractSlot ==
    /\ pc = "idle"
    /\ \E input \in TextsUpTo(MaxTokens), intent_name \in IntentNames,
          slot_name \in SlotNames :
         \E matches \in RecognizerAnswers(input) :
            /\ op' = "extract_slot"
            /\ args' = [input |-> input, intent_name |-> intent_name,
                        slot_name |-> slot_name, matches |-> matches]
            /\ result' = extract_slot(input, intent_name, slot_name, matches)
    /\ pc' = "done"
    /\ UNCHANGED engine

TagSeenEntities ==
    /\ pc = "idle"
    /\ \E text \in TextsUpTo(MaxSeenTokens) \cup {LongText},
          intent \in DOMAIN slot_name_mapping, order \in Perms(DOMAIN entities) :
         LET mapping == slot_name_mapping[intent]
             intent_entities == {mapping[s] : s \in DOMAIN mapping}
         IN /\ op' = "tag_seen_entities"
            /\ args' = [text |-> text, intent_entities |-> intent_entities,
                        order |-> order]
            /\ result' = tag_seen_entities(text, intent_entities, order)
    /\ pc' = "done"
    /\ UNCHANGED engine

Return ==
    /\ pc = "done"
    /\ pc' = "idle"
    /\ op' = "none"
    /\ args' = <<>>
    /\ result' = <<>>
    /\ UNCHANGED engine

Tag ==
    /\ pc = "idle"
    /\ \E text \in TextsUpTo(MaxTagTokens), intent \in {"I0", "I1", "I2"},
          small_data_regime_threshold \in Thresholds :
         \E strategies \in StrategyAnswers(text, Some(<<intent>>),
                                           SlotAnswers(BaselinePool, MaxBaseline)),
            builtin \in BuiltinAnswers(text),
            order \in Perms(DOMAIN entities), policy \in Policies :
            /\ op' = "tag"
            /\ args' = [text |-> text, intent |-> intent,
                        small_data_regime_threshold |-> small_data_regime_threshold]
            /\ result' = tag(text, intent, small_data_regime_threshold,
                             strategies, builtin, order, policy)
    /\ pc' = "done"
    /\ UNCHANGED engine

NextParse == Parse \/ Return

SpecParse == Init /\ [][NextParse]_vars

NextExtract == ExtractSlot \/ Return

SpecExtract == InitWith({<<>>}, Catalogs, {FALSE}) /\ [][NextExtract]_vars

NextTag == Tag \/ Return

SpecTag ==
    InitWith({<<>>, <<"rule_based", "probabilistic">>}, TagCatalogs, {FALSE})
    /\ [][NextTag]_vars

NextSeen == TagSeenEntities \/ Return

SpecSeen ==
    InitWith({<<>>}, Catalogs \cup {LongCatalog}, BOOLEAN) /\ [][NextSeen]_vars

(***************************************************************************)
(* Properties of parse                                                     *)
(***************************************************************************)
\* the get_intent calls of a call trace, in order
IntentCalls(calls) == SelectSeq(calls, LAMBDA c : c.method = "get_intent")

\* the get_slots calls of a call trace, in order
SlotCalls(calls) == SelectSeq(calls, LAMBDA c : c.method = "get_slots")

\* two slots agree on everything but the value
SameSpan(s1, s2) ==
    /\ s1.raw_value = s2.raw_value
    /\ s1.range = s2.range
    /\ s1.entity = s2.entity
    /\ s1.slot_name = s2.slot_name

\* C1: a successful parse has slots = None iff intent = None; when the
\* strategy list is empty, or every strategy consulted answers that it has
\* no classification, parse succeeds with both None.
C1_SlotsIffIntent ==
    op = "parse" =>
        /\ result.ok => ((result.val.slots = None) <=> (result.val.intent = None))
        /\ Len(parsers) = 0 =>
              /\ result.ok
              /\ result.val.intent = None
              /\ result.val.slots = None
        /\ (\A i \in DOMAIN result.calls :
               /\ result.calls[i].method = "get_intent"
               /\ result.calls[i].answer.ok
               /\ result.calls[i].answer.val = None) =>
              /\ result.ok
              /\ result.val.intent = None
              /\ result.val.slots = None

\* two strategies were consulted, neither classified the input
C1_Witness ==
    /\ op = "parse"
    /\ Len(parsers) = 2
    /\ Len(result.calls) = 2
    /\ result.ok
    /\ result.val.intent = None
    /\ result.val.slots = None

\* C2: the strategies are asked for a classification in the configured
\* order; every one asked before the last answered "none"; a returned intent
\* is the answer of the last one asked, that strategy alone is asked for
\* slots, every returned slot stems from its answer, and nothing is called
\* after it.
C2_StrictWaterfall ==
    op = "parse" =>
        LET ic == IntentCalls(result.calls)
            sc == SlotCalls(result.calls)
        IN /\ Len(ic) <= Len(parsers)
           /\ \A k \in DOMAIN ic : ic[k].parser = parsers[k]
           /\ \A k \in 1..(Len(ic) - 1) : ic[k].answer.ok /\ ic[k].answer.val = None
           /\ Len(sc) <= 1
           /\ (result.ok /\ IsSome(result.val.intent)) =>
                 /\ ic[Len(ic)].answer.ok
                 /\ ic[Len(ic)].answer.val = result.val.intent
                 /\ Len(sc) = 1
                 /\ sc[1].parser = ic[Len(ic)].parser
                 /\ result.calls[Len(result.calls)] = sc[1]
                 /\ sc[1].answer.ok
                 /\ \A i \in DOMAIN Unwrap(result.val.slots) :
                       \E j \in DOMAIN sc[1].answer.val :
                          SameSpan(Unwrap(result.val.slots)[i], sc[1].answer.val[j])
           /\ (result.ok /\ ~IsSome(result.val.intent)) =>
                 /\ Len(ic) = Len(parsers)
                 /\ Len(sc) = 0

\* the first strategy had no classification, the second one classified the
\* input and its slots are returned
C2_Witness ==
    /\ op = "parse"
    /\ result.ok
    /\ Len(IntentCalls(result.calls)) = 2
    /\ IsSome(result.val.intent)
    /\ Unwrap(result.val.intent).probability = 70
    /\ Len(Unwrap(result.val.slots)) = 2

\* the slots the strategy proposed for the returned intent
Proposed == SlotCalls(result.calls)[1].answer.val

\* a proposed slot is kept unless its entity is a closed Catalog entity that
\* does not know the raw value
IsKept(slot) ==
    \/ slot.entity \notin DOMAIN entities
    \/ slot.raw_value \in DOMAIN entities[slot.entity].utterances
    \/ entities[slot.entity].automatically_extensible

\* C3: a returned slot of a Catalog entity that is not automatically
\* extensible has the value Custom(v), v the reference value stored under
\* its raw_value; a proposed slot of such an entity whose raw_value is no
\* key of the utterance map is not returned; the slots returned are the
\* others, in the order the strategy proposed them.
C3_ClosedEntitySlots ==
    (op = "parse" /\ result.ok /\ IsSome(result.val.slots)) =>
        LET slots == Unwrap(result.val.slots)
            kept == SelectSeq(Proposed, IsKept)
        IN /\ \A i \in DOMAIN slots :
                 (/\ slots[i].entity \in DOMAIN entities
                  /\ ~entities[slots[i].entity].automatically_extensible) =>
                     /\ slots[i].raw_value \in DOMAIN entities[slots[i].entity].utterances
                     /\ slots[i].value =
                          Custom(entities[slots[i].entity].utterances[slots[i].raw_value])
           /\ Len(slots) = Len(kept)
           /\ \A i \in DOMAIN slots : SameSpan(slots[i], kept[i])

\* a slot of a closed entity was dropped, one after it was normalised
C3_Witness ==
    /\ op = "parse"
    /\ result.ok
    /\ IsSome(result.val.slots)
    /\ Len(Proposed) = 2
    /\ ~IsKept(Proposed[1])
    /\ Len(Unwrap(result.val.slots)) = 1
    /\ Unwrap(result.val.slots)[1].entity \in DOMAIN entities
    /\ ~entities[Unwrap(result.val.slots)[1].entity].automatically_extensible
    /\ Unwrap(result.val.slots)[1].value.v # Unwrap(result.val.slots)[1].raw_value

\* C4: a returned slot of an automatically extensible Catalog entity whose
\* raw_value is no key of the utterance map has the value Custom(raw_value),
\* whatever value the strategy had attached.
C4_ExtensibleMissIsRaw ==
    (op = "parse" /\ result.ok /\ IsSome(result.val.slots)) =>
        \A i \in DOMAIN Unwrap(result.val.slots) :
           LET slot == Unwrap(result.val.slots)[i]
           IN (/\ slot.entity \in DOMAIN entities
               /\ entities[slot.entity].automatically_extensible
               /\ slot.raw_value \notin DOMAIN entities[slot.entity].utterances) =>
                  slot.value = Custom(slot.raw_value)

(***************************************************************************)
(* Properties of extract_slot                                              *)
(***************************************************************************)
\* C5: with an intent that has no slot-name mapping extract_slot fails with
\* the unknown-intent error, whatever the slot name; with a configured
\* intent and a slot name outside its mapping it fails with the
\* unknown-slot error; it returns no value in either case.
C5_UnknownNamesFail ==
    op = "extract_slot" =>
        /\ args.intent_name \notin DOMAIN slot_name_mapping =>
              /\ ~result.ok
              /\ result.err = <<"Unknown intent", args.intent_name>>
        /\ (/\ args.intent_name \in DOMAIN slot_name_mapping
            /\ args.slot_name \notin DOMAIN slot_name_mapping[args.intent_name]) =>
              /\ ~result.ok
              /\ result.err = <<"Unknown slot", args.slot_name>>

\* neither the intent nor the slot is registered: the intent is reported
C5_Witness ==
    /\ op = "extract_slot"
    /\ args.intent_name = "I0"
    /\ args.slot_name = "s0"
    /\ ~result.ok
    /\ result.err[1] = "Unknown intent"

\* the Catalog entity extract_slot resolves its arguments to, if any
ResolvesToCustom ==
    /\ op = "extract_slot"
    /\ args.intent_name \in DOMAIN slot_name_mapping
    /\ args.slot_name \in DOMAIN slot_name_mapping[args.intent_name]
    /\ slot_name_mapping[args.intent_name][args.slot_name] \in DOMAIN entities

\* C6: for a slot of a Catalog entity only the whole input counts: if it is
\* a key of the utterance map the slot has raw_value = input, value =
\* Custom(reference value) and no range; if not, the slot has value =
\* Custom(input) and no range when the entity is automatically extensible,
\* and nothing is returned otherwise.
C6_WholeInputMatch ==
    ResolvesToCustom =>
        LET entity == entities[slot_name_mapping[args.intent_name][args.slot_name]]
        IN /\ result.ok
           /\ IF args.input \in DOMAIN entity.utterances
              THEN /\ IsSome(result.val)
                   /\ Unwrap(result.val).raw_value = args.input
                   /\ Unwrap(result.val).value = Custom(entity.utterances[args.input])
                   /\ Unwrap(result.val).range = None
              ELSE IF entity.automatically_extensible
              THEN /\ IsSome(result.val)
                   /\ Unwrap(result.val).raw_value = args.input
                   /\ Unwrap(result.val).value = Custom(args.input)
                   /\ Unwrap(result.val).range = None
              ELSE result.val = None

\* the input "a b" starts with the known utterance "a" of a closed entity
\* that does not know "a b": nothing is returned
C6_Witness ==
    /\ ResolvesToCustom
    /\ args.input = <<"a", "b">>
    /\ LET entity == entities[slot_name_mapping[args.intent_name][args.slot_name]]
       IN /\ <<"a">> \in DOMAIN entity.utterances
          /\ <<"a", "b">> \notin DOMAIN entity.utterances
          /\ ~entity.automatically_extensible
    /\ result.ok
    /\ result.val = None

(***************************************************************************)
(* Properties of tag                                                       *)
(***************************************************************************)
\* the intent passed to tag has a data size and a slot-name mapping
TagConfigured ==
    /\ op = "tag"
    /\ args.intent \in DOMAIN intents_data_sizes
    /\ args.intent \in DOMAIN slot_name_mapping

\* the threshold tag is to use: the supplied one, or 5
Threshold ==
    IF IsSome(args.small_data_regime_threshold)
    THEN Unwrap(args.small_data_regime_threshold)
    ELSE 5

\* the slots parse returns, from the calls it made: the kept slots of the
\* strategy asked for slots, or none
BaselineSlots ==
    IF SlotCalls(result.calls) = <<>> THEN <<>>
    ELSE filter_map_slots(SlotCalls(result.calls)[1].answer.val)

\* C7: for a configured intent with intent_data_size >= threshold (the
\* supplied threshold, or 5) a successful tag returns the slots of parse,
\* one TaggedEntity per slot, in order, with the slot name set, and nothing
\* else.
C7_HighDataIsBaseline ==
    (TagConfigured /\ intents_data_sizes[args.intent] >= Threshold /\ result.ok) =>
        /\ Len(result.val) = Len(BaselineSlots)
        /\ \A i \in DOMAIN result.val :
              result.val[i] = TaggedEntity(BaselineSlots[i].raw_value,
                                           BaselineSlots[i].range,
                                           BaselineSlots[i].entity,
                                           Some(BaselineSlots[i].slot_name))

\* the data size equals the default threshold, the text holds the known
\* utterance "a b", and the one slot of the baseline, which has no range,
\* is all that is returned
C7_Witness ==
    /\ TagConfigured
    /\ args.small_data_regime_threshold = None
    /\ intents_data_sizes[args.intent] = 5
    /\ args.text = <<"a", "b">>
    /\ result.ok
    /\ Len(result.calls) = 3
    /\ Len(result.val) = 1
    /\ result.val[1].range = None

\* C8: in the low-data branch no two ranges of the returned sequence overlap.
C8_LowDataNoOverlap ==
    (op = "tag" /\ result.ok /\ result.low_data) =>
        \A i, j \in DOMAIN result.val :
           (i < j /\ IsSome(result.val[i].range) /\ IsSome(result.val[j].range)) =>
              LET r1 == Unwrap(result.val[i].range)
                  r2 == Unwrap(result.val[j].range)
              IN r1[2] <= r2[1] \/ r2[2] <= r1[1]

\* the baseline held two overlapping slots and a builtin match was found;
\* two entities with ranges are returned
C8_Witness ==
    /\ op = "tag"
    /\ result.ok
    /\ result.low_data
    /\ Len(result.baseline) = 2
    /\ \A i \in 1..2 : IsSome(result.baseline[i].range)
    /\ overlap(result.baseline[1].range, result.baseline[2].range)
    /\ Len(result.builtin) = 1
    /\ \E i, j \in DOMAIN result.val :
          i < j /\ IsSome(result.val[i].range) /\ IsSome(result.val[j].range)

(***************************************************************************)
(* Properties of tag_seen_entities                                         *)
(***************************************************************************)
\* the first tokens of the occurrences of the string k in a text
Occurrences(text, k) ==
    LET t == Words(text)
        w == Words(k)
    IN {f \in 1..(Len(t) - Len(w) + 1) :
           t[f] = w[1] /\ SubSeq(t, f, f + Len(w) - 1) = w}

\* the Catalog entities of the intent that know the string k
Knowing(k) ==
    {e \in args.intent_entities \cap DOMAIN entities : k \in DOMAIN entities[e].utterances}

\* the strings some Catalog entity of the intent knows
KnownStrings ==
    UNION {DOMAIN entities[e].utterances : e \in args.intent_entities \cap DOMAIN entities}

\* C9: an n-gram that is a key of the utterance maps of two or more Catalog
\* entities of the intent is no seen-entity candidate; an n-gram that is a
\* key for exactly one of them is a candidate with that entity's name and
\* no slot name; there are no other candidates.
C9_AmbiguousNgramsDiscarded ==
    (op = "tag_seen_entities" /\ ~result.panic) =>
        /\ \A k \in KnownStrings : \A f \in Occurrences(args.text, k) :
              LET range == Some(CharRange(f, f + Len(Words(k)) - 1))
              IN IF Cardinality(Knowing(k)) >= 2
                 THEN \A i \in DOMAIN result.candidates :
                         result.candidates[i].range # range
                 ELSE \E i \in DOMAIN result.candidates :
                         result.candidates[i] =
                            TaggedEntity(k, range, CHOOSE e \in Knowing(k) : TRUE, None)
        /\ \A i \in DOMAIN result.candidates :
              Cardinality(Knowing(result.candidates[i].value)) = 1
        /\ \A i \in DOMAIN result.val :
              \E j \in DOMAIN result.candidates : result.val[i] = result.candidates[j]

\* "a" is known to three entities of the intent and occurs in the text,
\* "a b" is known to one and is a candidate
C9_Witness ==
    /\ op = "tag_seen_entities"
    /\ ~result.panic
    /\ args.text = <<"a", "b">>
    /\ Cardinality(Knowing(<<"a">>)) = 3
    /\ Cardinality(Knowing(<<"a", "b">>)) = 1
    /\ Len(result.candidates) = 1

\* the number of tokens a tagged entity spans
TokenCount(entity) == Len(Words(entity.value))

\* C10: the candidates are merged in descending order of token count, and
\* of two overlapping candidates of different token counts the shorter one
\* is accepted only if the longer one overlaps an accepted span that is at
\* least as long as itself.
C10_LongestFirst ==
    (op = "tag_seen_entities" /\ ~result.panic) =>
        /\ \A i, j \in DOMAIN result.candidates :
              i < j => TokenCount(result.candidates[i]) >= TokenCount(result.candidates[j])
        /\ \A i, j \in DOMAIN result.candidates :
              LET long == result.candidates[i]
                  short == result.candidates[j]
              IN (/\ TokenCount(long) > TokenCount(short)
                  /\ overlap(long.range, short.range)
                  /\ \E n \in DOMAIN result.val : result.val[n] = short) =>
                     \E n \in DOMAIN result.val :
                        /\ result.val[n] # short
                        /\ TokenCount(result.val[n]) >= TokenCount(long)
                        /\ overlap(result.val[n].range, long.range)

====
